---- MODULE Spec2Model ----
(***************************************************************************)
(* PREvant: the host-meta cache (api/src/apps/host_meta_cache.rs) and the  *)
(* Docker infrastructure (api/src/services/docker/docker_infrastructure.rs)*)
(*                                                                         *)
(* Time is counted in minutes.  The crawler is spawned at minute           *)
(* FiveMinutes, so that containers which were started before PREvant can   *)
(* already be older than the five-minute threshold of                      *)
(* resolve_web_host_meta.                                                  *)
(***************************************************************************)
EXTENDS Integers, Sequences, FiniteSets, TLC

\* ----------------------------------------------------------------- bounds
\* Minutes the clock may advance after the crawler has been spawned.
MaxUptime == 1

\* Container and network ids the runtime hands out.
MaxIds == 3

\* Threads of the service that call start_services at the same time.
Callers == {1, 2}

\* ------------------------------------------------------ program constants
\* chrono::Duration::minutes(5), host_meta_cache.rs:322
FiveMinutes == 5
\* chrono::Duration::minutes(1), host_meta_cache.rs:323
OneMinute == 1

\* ------------------------------------------------------------------ data
\* "demo" is the app whose containers come and go; "other" is an app name that a
\* listing may carry and no container of the inventory does.
AppNames == {"demo", "other"}
DeployedApps == {"demo"}
ServiceIds == {1, 2}
Statuses == {"Running", "Paused"}

\* struct Key { app_name, service_id }
Key(app_name, service_id) == [app_name |-> app_name, service_id |-> service_id]
Keys == [app_name : AppNames, service_id : ServiceIds]

\* WebHostMeta: a parsed document, WebHostMeta::empty() or WebHostMeta::invalid().
\* base_url is the URL the document's links are relative to ("origin": as served).
Meta(kind) == [kind |-> kind, base_url |-> "origin"]
\* WebHostMeta::is_valid
is_valid(meta) == meta.kind = "valid"
\* WebHostMeta::with_base_url
with_base_url(meta, base_url) == [meta EXCEPT !.base_url = base_url]

\* struct Value { timestamp, web_host_meta }
Value(timestamp, web_host_meta) ==
    [timestamp |-> timestamp, web_host_meta |-> web_host_meta]

\* ------------------------------------------------------------- variables
VARIABLES
    clock,            \* Utc::now(), in minutes
    inventory,        \* the services the infrastructure currently runs
    since_timestamp,  \* timestamp_prevant_startup of HostMetaCrawler::spawn
    published,        \* the evmap as readers (and the writer's own reads) see it
    pc,               \* where the crawler task is: "sleep" or "probing"
    \* crawl's locals
    apps,             \* the snapshot of the cycle; kept while the crawler sleeps
    targets,          \* probes of the cycle that have not completed
    resolved,         \* resolved_host_meta_infos, in order of completion
    now,              \* the timestamp of the cycle's insertions
    duration_prevant_startup,
    evicted,          \* keys_to_clear of this cycle's eviction pass
    refreshes,        \* calls of writer.refresh() in the last call of crawl
    outcome           \* how the last call of crawl ended: "none", "error", "idle", "refreshed"

crawlerVars == <<published, pc, apps, targets, resolved, now,
                 duration_prevant_startup, evicted, refreshes, outcome>>

\* One call of HostMetaCache::update_meta_data
VARIABLES
    dec_pc,           \* "idle", "running" (in the loop) or "returned"
    dec_services,     \* the argument `services`: per app, the ids of its services
    request_info,     \* the argument `request_info`: its base URL
    assigned_apps,    \* the result: per app, the services built so far
    present_at_start  \* the keys of `services` the cache held when the call began

readerVars == <<dec_pc, dec_services, request_info, assigned_apps, present_at_start>>

\* The container runtime and one call of DockerInfrastructure::stop_services
VARIABLES
    containers,       \* the containers of the runtime, with their labels
    networks,         \* the networks of the runtime
    next_id,          \* the next container or network id the runtime hands out
    stop_pc,          \* where the call of stop_services is
    stop_app,         \* its argument app_name
    stop_before,      \* the containers labelled with app_name when it was called
    stop_result,      \* its local `services`, the value it returns on success
    stop_outcome,     \* "none", "ok" or "err": how the last call returned
    container_ids,    \* its futures: the containers still to stop or to delete
    stop_prev         \* "early" or "stopped": this call follows a successful call
                      \* for the same app (which returned early, or stopped the
                      \* app) and no container of the app has appeared since that
                      \* call began; "none" otherwise

\* The calls of DockerInfrastructure::start_services, one per caller
VARIABLES
    start_pc,         \* where the call is: "idle", "network", "create_network",
                      \* "scope" (its threads run), "returned", "hung"
    start_app,        \* its argument app_name
    start_configs,    \* its argument configs
    network_id,       \* its local network_id
    workers,          \* its threads, one per config: the place in start_container
                      \* and its locals
    channel,          \* the results the threads have sent, in the order of arrival
    start_outcome     \* "none", "ok" or "err": how the call returned

startVars == <<start_pc, start_app, start_configs, network_id, workers, channel,
               start_outcome>>

\* The last call of DockerInfrastructure::get_services and the last conversion
\* of a container by Service::try_from
VARIABLES
    returned_apps,    \* how get_services returned ("none" before the first
                      \* call, "ok", "err") and the services of its MultiMap
    converted         \* the container given to try_from and the result, once
                      \* a conversion is done

listVars == <<returned_apps, converted>>

dockerVars == <<containers, networks, next_id, stop_pc, stop_app, stop_before,
                stop_result, stop_outcome, container_ids, stop_prev, startVars,
                listVars>>

vars == <<clock, inventory, since_timestamp, crawlerVars, readerVars, dockerVars>>

\* ------------------------------------------------------ the inventory
\* A Service as the crawler uses it: id(), app_name(), status(), started_at().
\* Container ids are unique in the runtime, so the inventory is a set of services
\* with pairwise different ids, and the order of a MultiMap's Vec is immaterial.
Service(id, app_name, status, started_at) ==
    [id |-> id, app_name |-> app_name, status |-> status, started_at |-> started_at]

\* MultiMap::get_vec(&app_name): None is the empty set
get_vec(map, app_name) == {s \in map : s.app_name = app_name}

\* ------------------------------------------------------------ the evmap
\* The map holds a bag of values per key; a key without values is absent.
EmptyMap == [k \in Keys |-> <<>>]
contains_key(map, key) == map[key] # <<>>
\* ReadHandle::get_one: some value of the key
get_one(map, key) == map[key][1]

\* The write operations of a WriteHandle are queued, and a refresh applies them in
\* order and swaps the maps, which makes all of them visible to readers at once.
ApplyOp(map, op) ==
    IF op.op = "empty"
    THEN [map EXCEPT ![op.key] = <<>>]
    ELSE [map EXCEPT ![op.key] = Append(@, op.value)]

RECURSIVE ApplyOps(_, _)
ApplyOps(map, oplog) ==
    IF oplog = <<>> THEN map
    ELSE ApplyOps(ApplyOp(map, Head(oplog)), Tail(oplog))

\* (mutant) a refresh that publishes the first queued operation only
refresh_first_op(map, oplog) ==
    IF oplog = <<>> THEN map ELSE ApplyOp(map, Head(oplog))

refresh(map, oplog) == ApplyOps(map, oplog)

\* ------------------------------------- HostMetaCache::update_meta_data
\* A MultiMap<AppName, Service> of a listing: per app the Vec of its services; a
\* service of the argument is known by its id.
NoServices == [app_name \in AppNames |-> <<>>]

\* ServiceBuilder::from(service).base_url(..).web_host_meta(..).build()
BuiltService(id, base_url, web_host_meta) ==
    [id |-> id, base_url |-> base_url, web_host_meta |-> web_host_meta]
NoMeta == [kind |-> "none", base_url |-> "none"]

\* (mutant) the body of the loop without the rebase of the meta
decorated_without_rebase(map, app_name, id, base_url) ==
    LET key == Key(app_name, id)
    IN  BuiltService(id, base_url,
            IF contains_key(map, key) THEN get_one(map, key).web_host_meta ELSE NoMeta)

\* (mutant) the body of the loop answered from the cache as it was when the call
\* began
decorated_at_call(map, app_name, id, base_url) ==
    LET key == Key(app_name, id)
    IN  BuiltService(id, base_url,
            IF key \in present_at_start
            THEN with_base_url(Meta("valid"), base_url)
            ELSE NoMeta)

\* The body of the loop, lines 86-101: the service with the request's base URL,
\* and with the rebased meta of the cache when reader.get_one finds the key.
decorated(map, app_name, id, base_url) ==
    LET key == Key(app_name, id)
    IN  BuiltService(id, base_url,
            IF contains_key(map, key)
            THEN with_base_url(get_one(map, key).web_host_meta, base_url)
            ELSE NoMeta)

\* ----------------------------------------------- DockerInfrastructure
APP_NAME_LABEL == "preview.servant.app-name"
SERVICE_NAME_LABEL == "preview.servant.service-name"
CONTAINER_TYPE_LABEL == "preview.servant.container-type"

\* A container of the runtime: its id, its labels (a function of the label names
\* it carries) and whether it runs.  A listing without `all` shows the running
\* containers only.
Container(id, labels, running) == [id |-> id, labels |-> labels, running |-> running]

\* Labels with which containers are created; "none" leaves the label out.
Labels(app_name, service_name, container_type) ==
    LET given == [l \in {APP_NAME_LABEL, SERVICE_NAME_LABEL, CONTAINER_TYPE_LABEL} |->
                     IF l = APP_NAME_LABEL THEN app_name
                     ELSE IF l = SERVICE_NAME_LABEL THEN service_name
                     ELSE container_type]
    IN  [l \in {x \in DOMAIN given : given[x] # "none"} |-> given[l]]

LabelSets ==
    { Labels("demo", "api", "instance"),
      Labels("demo", "api", "none"),
      Labels("demo", "none", "instance"),
      Labels("demo", "api", "bogus"),
      Labels("other", "api", "instance"),
      Labels("none", "api", "instance") }

\* format!("{}-net", app_name)
NetworkName(app_name) == <<app_name, "-net">>

\* str::parse::<ContainerType>
ContainerTypes == {"instance", "replica", "app-companion", "service-companion"}

\* (mutant) the conversion that looks for the app-name label first
try_from_app_first(c) ==
    IF APP_NAME_LABEL \notin DOMAIN c.labels
    THEN [ok |-> FALSE, err |-> "MissingAppNameLabel"]
    ELSE IF SERVICE_NAME_LABEL \notin DOMAIN c.labels
    THEN [ok |-> FALSE, err |-> "MissingServiceNameLabel"]
    ELSE IF /\ CONTAINER_TYPE_LABEL \in DOMAIN c.labels
            /\ c.labels[CONTAINER_TYPE_LABEL] \notin ContainerTypes
    THEN [ok |-> FALSE, err |-> "UnknownServiceType"]
    ELSE [ok |-> TRUE,
          service |-> [app_name |-> c.labels[APP_NAME_LABEL],
                       service_name |-> c.labels[SERVICE_NAME_LABEL],
                       id |-> c.id,
                       container_type |->
                           IF CONTAINER_TYPE_LABEL \in DOMAIN c.labels
                           THEN c.labels[CONTAINER_TYPE_LABEL] ELSE "instance"]]

\* TryFrom<&Container> for Service
try_from(c) ==
    IF SERVICE_NAME_LABEL \notin DOMAIN c.labels
    THEN [ok |-> FALSE, err |-> "MissingServiceNameLabel"]
    ELSE IF APP_NAME_LABEL \notin DOMAIN c.labels
    THEN [ok |-> FALSE, err |-> "MissingAppNameLabel"]
    ELSE IF /\ CONTAINER_TYPE_LABEL \in DOMAIN c.labels
            /\ c.labels[CONTAINER_TYPE_LABEL] \notin ContainerTypes
    THEN [ok |-> FALSE, err |-> "UnknownServiceType"]
    ELSE [ok |-> TRUE,
          service |-> [app_name |-> c.labels[APP_NAME_LABEL],
                       service_name |-> c.labels[SERVICE_NAME_LABEL],
                       id |-> c.id,
                       container_type |->
                           IF CONTAINER_TYPE_LABEL \in DOMAIN c.labels
                           THEN c.labels[CONTAINER_TYPE_LABEL] ELSE "instance"]]

\* containers.list with ContainerFilter::LabelName(label)
list_label_name(cs, label) == {c \in cs : c.running /\ label \in DOMAIN c.labels}
\* containers.list with ContainerFilter::Label(label, value)
list_label(cs, label, value) ==
    {c \in list_label_name(cs, label) : c.labels[label] = value}

\* DockerInfrastructure::get_services: the services of the containers that carry
\* the app-name label; a container which try_from rejects is logged and skipped.
get_services(cs) ==
    {try_from(c).service :
        c \in {x \in list_label_name(cs, APP_NAME_LABEL) : try_from(x).ok}}

\* ------------------------------------- HostMetaCrawler: the eviction pass
\* The filter of clear_stale_web_host_meta: is the entry (key, value) stale?
\* (mutant) the filter without the test for a paused service
is_stale_ignoring_paused(all_apps, key, value) ==
    LET services == get_vec(all_apps, key.app_name)
        found == {s \in services : s.id = key.service_id}
    IN  IF services = {} THEN TRUE
        ELSE IF found = {} THEN TRUE
        ELSE LET service == CHOOSE s \in found : TRUE
             IN  service.started_at > value.timestamp

\* (mutant) the filter with >= for >
is_stale_at_equal(all_apps, key, value) ==
    LET services == get_vec(all_apps, key.app_name)
        found == {s \in services : s.id = key.service_id}
    IN  IF services = {} THEN TRUE
        ELSE IF found = {} THEN TRUE
        ELSE LET service == CHOOSE s \in found : TRUE
             IN  service.status = "Paused" \/ service.started_at >= value.timestamp

\* (mutant) the filter that keeps the entries of an app the snapshot does not show
is_stale_keeps_unknown_app(all_apps, key, value) ==
    LET services == get_vec(all_apps, key.app_name)
        found == {s \in services : s.id = key.service_id}
    IN  IF services = {} THEN FALSE
        ELSE IF found = {} THEN TRUE
        ELSE LET service == CHOOSE s \in found : TRUE
             IN  service.status = "Paused" \/ service.started_at > value.timestamp

is_stale(all_apps, key, value) ==
    LET services == get_vec(all_apps, key.app_name)
        found == {s \in services : s.id = key.service_id}
    IN  IF services = {} THEN TRUE
        ELSE IF found = {} THEN TRUE
        ELSE LET service == CHOOSE s \in found : TRUE
             IN  service.status = "Paused" \/ service.started_at > value.timestamp

keys_to_clear(map, all_apps) ==
    {key \in Keys : \E i \in 1..Len(map[key]) : is_stale(all_apps, key, map[key][i])}

RECURSIVE EmptyOps(_)
EmptyOps(keys) ==
    IF keys = {} THEN <<>>
    ELSE LET key == CHOOSE k \in keys : TRUE
         IN  <<[op |-> "empty", key |-> key]>> \o EmptyOps(keys \ {key})

\* writer.empty(key) for every stale key, then writer.refresh(); nothing when no
\* key is stale.
\* (mutant) the eviction pass without its own refresh: the evictions stay queued
clear_stale_without_refresh(map, all_apps) == map

clear_stale_web_host_meta(map, all_apps) ==
    LET keys == keys_to_clear(map, all_apps)
    IN  IF keys = {} THEN map ELSE refresh(map, EmptyOps(keys))

\* Lines 214-223: the eviction pass returns before its refresh when no key is stale.
clear_stale_refreshes(map, all_apps) ==
    IF keys_to_clear(map, all_apps) = {} THEN 0 ELSE 1

\* ---------------------------------------- HostMetaCrawler: the targets
\* The services of the snapshot whose key the writer's read handle does not hold.
\* (mutant) only one of the services without host meta becomes a target
services_without_host_meta_first(map, all_apps) ==
    LET all == {[key |-> Key(s.app_name, s.id), service |-> s] :
                   s \in {x \in all_apps : ~contains_key(map, Key(x.app_name, x.id))}}
    IN  IF all = {} THEN {} ELSE {CHOOSE t \in all : TRUE}

\* (mutant) every service of the snapshot becomes a target
services_without_host_meta_all(map, all_apps) ==
    {[key |-> Key(s.app_name, s.id), service |-> s] : s \in all_apps}

services_without_host_meta(map, all_apps) ==
    {[key |-> Key(s.app_name, s.id), service |-> s] :
        s \in {x \in all_apps : ~contains_key(map, Key(x.app_name, x.id))}}

\* ---------------------------------------- HostMetaCrawler: the insertions
\* The loop over resolved_host_meta_infos: metas that are not valid are skipped.
\* (mutant) the loop without the is_valid test
RECURSIVE InsertOps_unchecked(_, _)
InsertOps_unchecked(infos, timestamp) ==
    IF infos = <<>> THEN <<>>
    ELSE <<[op |-> "insert", key |-> Head(infos).key,
            value |-> Value(timestamp, Head(infos).web_host_meta)]>>
         \o InsertOps_unchecked(Tail(infos), timestamp)

RECURSIVE InsertOps(_, _)
InsertOps(infos, timestamp) ==
    IF infos = <<>> THEN <<>>
    ELSE LET info == Head(infos)
             rest == InsertOps(Tail(infos), timestamp)
         IN  IF ~is_valid(info.web_host_meta) THEN rest
             ELSE <<[op |-> "insert", key |-> info.key,
                     value |-> Value(timestamp, info.web_host_meta)]>> \o rest

\* The classification of a transport error in resolve_web_host_meta.
\* (mutant) the classification by the uptime of the service alone
transport_error_meta_by_service(started_at, at, duration_startup) ==
    IF at - started_at >= FiveMinutes THEN Meta("empty") ELSE Meta("invalid")

transport_error_meta(started_at, at, duration_startup) ==
    LET duration == at - started_at
    IN  IF duration >= FiveMinutes /\ duration_startup >= OneMinute
        THEN Meta("empty")
        ELSE Meta("invalid")

\* ------------------------------------------------------------------ Init
PreExisting == {Service(id, "demo", "Running", 0) : id \in ServiceIds}

\* host_meta_cache::new and HostMetaCrawler::spawn: an empty map, the crawler at
\* its first sleep
InitCrawler ==
    /\ clock = FiveMinutes
    /\ since_timestamp = clock
    /\ pc = "sleep"
    /\ apps = {}
    /\ targets = {}
    /\ resolved = <<>>
    /\ now = 0
    /\ duration_prevant_startup = 0
    /\ evicted = {}
    /\ refreshes = 0
    /\ outcome = "none"

\* no call of update_meta_data is running
InitReader ==
    /\ dec_pc = "idle"
    /\ dec_services = NoServices
    /\ request_info = "none"
    /\ assigned_apps = NoServices
    /\ present_at_start = {}

\* no call of start_services
InitStart ==
    /\ start_pc = [c \in Callers |-> "idle"]
    /\ start_app = [c \in Callers |-> "none"]
    /\ start_configs = [c \in Callers |-> <<>>]
    /\ network_id = [c \in Callers |-> 0]
    /\ workers = [c \in Callers |-> <<>>]
    /\ channel = [c \in Callers |-> <<>>]
    /\ start_outcome = [c \in Callers |-> "none"]

\* no call of get_services, no conversion
InitList ==
    /\ returned_apps = [call |-> "none"]
    /\ converted = [done |-> FALSE]

\* an empty runtime, no call of stop_services
InitDocker ==
    /\ containers = {}
    /\ networks = {}
    /\ next_id = 1
    /\ stop_pc = "idle"
    /\ stop_app = "none"
    /\ stop_before = {}
    /\ stop_result = {}
    /\ stop_outcome = "none"
    /\ container_ids = {}
    /\ stop_prev = "none"
    /\ InitStart
    /\ InitList

Init ==
    /\ inventory \in SUBSET PreExisting
    /\ published = EmptyMap
    /\ InitCrawler
    /\ InitReader
    /\ InitDocker

\* ----------------------------------------------------- the environment
Tick ==
    /\ clock < since_timestamp + MaxUptime
    /\ clock' = clock + 1
    /\ UNCHANGED <<inventory, since_timestamp, crawlerVars>>
    /\ UNCHANGED <<readerVars, dockerVars>>

HasService(id) == \E s \in inventory : s.id = id

\* A container of the app is created and started.
StartService ==
    \E id \in ServiceIds, app_name \in DeployedApps :
        /\ ~HasService(id)
        /\ inventory' = inventory \cup {Service(id, app_name, "Running", clock)}
        /\ UNCHANGED <<clock, since_timestamp, crawlerVars>>
        /\ UNCHANGED <<readerVars, dockerVars>>

\* A running container is restarted: same id, a new started_at.
RestartService ==
    \E s \in inventory :
        /\ s.status = "Running"
        /\ inventory' = (inventory \ {s}) \cup {[s EXCEPT !.started_at = clock]}
        /\ UNCHANGED <<clock, since_timestamp, crawlerVars>>
        /\ UNCHANGED <<readerVars, dockerVars>>

PauseService ==
    \E s \in inventory :
        /\ s.status = "Running"
        /\ inventory' = (inventory \ {s}) \cup {[s EXCEPT !.status = "Paused"]}
        /\ UNCHANGED <<clock, since_timestamp, crawlerVars>>
        /\ UNCHANGED <<readerVars, dockerVars>>

UnpauseService ==
    \E s \in inventory :
        /\ s.status = "Paused"
        /\ inventory' = (inventory \ {s}) \cup {[s EXCEPT !.status = "Running"]}
        /\ UNCHANGED <<clock, since_timestamp, crawlerVars>>
        /\ UNCHANGED <<readerVars, dockerVars>>

RemoveService ==
    \E s \in inventory :
        /\ inventory' = inventory \ {s}
        /\ UNCHANGED <<clock, since_timestamp, crawlerVars>>
        /\ UNCHANGED <<readerVars, dockerVars>>

\* ------------------------------------------- HostMetaCrawler::crawl
\* (mutant) the error of crawl leaves spawn's loop
CrawlError_ends_loop ==
    /\ pc = "sleep"
    /\ pc' = "stopped"
    /\ outcome' = "error"
    /\ refreshes' = 0
    /\ UNCHANGED <<clock, inventory, since_timestamp, published, apps, targets,
                   resolved, now, duration_prevant_startup, evicted>>
    /\ UNCHANGED <<readerVars, dockerVars>>

\* all_apps.get_apps().await? fails: crawl returns the error, spawn's loop logs it
\* and sleeps again.
CrawlError ==
    /\ pc = "sleep"
    /\ outcome' = "error"
    /\ refreshes' = 0
    /\ UNCHANGED <<clock, inventory, since_timestamp, published, pc, apps, targets,
                   resolved, now, duration_prevant_startup, evicted>>
    /\ UNCHANGED <<readerVars, dockerVars>>

\* Lines 129-162: the snapshot, the eviction pass (which refreshes by itself), the
\* targets, and either the early return or the start of the probes.  Nothing in
\* between awaits, and nothing after the snapshot reads the inventory again.
CrawlSnapshot ==
    /\ pc = "sleep"
    /\ LET all_apps == inventory
           map == clear_stale_web_host_meta(published, all_apps)
           without == services_without_host_meta(map, all_apps)
       IN  /\ published' = map
           /\ refreshes' = clear_stale_refreshes(published, all_apps)
           /\ apps' = all_apps
           /\ targets' = without
           /\ resolved' = <<>>
           /\ IF without = {}
              THEN /\ pc' = "sleep"
                   /\ outcome' = "idle"
                   /\ evicted' = {}
                   /\ UNCHANGED <<now, duration_prevant_startup>>
              ELSE /\ pc' = "probing"
                   /\ now' = clock
                   /\ duration_prevant_startup' = clock - since_timestamp
                   /\ evicted' = keys_to_clear(published, all_apps)
                   /\ outcome' = outcome
    /\ UNCHANGED <<clock, inventory, since_timestamp>>
    /\ UNCHANGED <<readerVars, dockerVars>>

\* One future of resolve_host_meta completes with `meta`; `response` records what
\* the forwarder answered.
Resolve(target, response, meta) ==
    /\ pc = "probing"
    /\ target \in targets
    /\ targets' = targets \ {target}
    /\ resolved' = Append(resolved, [key |-> target.key, service |-> target.service,
                                     web_host_meta |-> meta, response |-> response])
    /\ UNCHANGED <<clock, inventory, since_timestamp, published, pc, apps, now,
                   duration_prevant_startup, evicted, refreshes, outcome>>
    /\ UNCHANGED <<readerVars, dockerVars>>

\* Only a container that runs can answer the request.
Answers(target) ==
    \E s \in inventory : s.id = target.service.id /\ s.status = "Running"

\* (mutant) a failure of http_forwarder() classified like a failed request
ForwarderError_classified ==
    \E target \in targets :
        Resolve(target, "no forwarder",
                transport_error_meta(target.service.started_at, clock,
                                     duration_prevant_startup))

\* infrastructure.http_forwarder() fails
ForwarderError == \E target \in targets : Resolve(target, "no forwarder", Meta("empty"))

\* Ok(Some(meta)): a parsed document, which may be an empty one
ResponseSome ==
    \E target \in targets, kind \in {"valid", "empty"} :
        Answers(target) /\ Resolve(target, "Ok(Some)", Meta(kind))

\* Ok(None): the body does not parse
ResponseNone ==
    \E target \in targets : Answers(target) /\ Resolve(target, "Ok(None)", Meta("empty"))

\* Err(err): the request fails
TransportError ==
    \E target \in targets :
        Resolve(target, "Err",
                transport_error_meta(target.service.started_at, clock,
                                     duration_prevant_startup))

\* (mutant) the insertions made as soon as one future has completed
CrawlInsert_eager ==
    /\ pc = "probing"
    /\ resolved # <<>>
    /\ published' = refresh(published, InsertOps(resolved, now))
    /\ pc' = "sleep"
    /\ outcome' = "refreshed"
    /\ refreshes' = refreshes + 1
    /\ resolved' = <<>>
    /\ now' = 0
    /\ duration_prevant_startup' = 0
    /\ evicted' = {}
    /\ UNCHANGED <<clock, inventory, since_timestamp, apps, targets>>
    /\ UNCHANGED <<readerVars, dockerVars>>

\* (mutant) the insertions stamped with the time of the insertion
CrawlInsert_stamped_late ==
    /\ pc = "probing"
    /\ targets = {}
    /\ published' = refresh(published, InsertOps(resolved, clock))
    /\ pc' = "sleep"
    /\ outcome' = "refreshed"
    /\ refreshes' = refreshes + 1
    /\ resolved' = <<>>
    /\ now' = 0
    /\ duration_prevant_startup' = 0
    /\ evicted' = {}
    /\ UNCHANGED <<clock, inventory, since_timestamp, apps, targets>>
    /\ UNCHANGED <<readerVars, dockerVars>>

\* Lines 169-184: every future has completed; the valid metas are inserted with
\* the one timestamp `now`, and one refresh publishes them.
CrawlInsert ==
    /\ pc = "probing"
    /\ targets = {}
    /\ published' = refresh(published, InsertOps(resolved, now))
    /\ pc' = "sleep"
    /\ outcome' = "refreshed"
    /\ refreshes' = refreshes + 1
    /\ resolved' = <<>>
    /\ now' = 0
    /\ duration_prevant_startup' = 0
    /\ evicted' = {}
    /\ UNCHANGED <<clock, inventory, since_timestamp, apps, targets>>
    /\ UNCHANGED <<readerVars, dockerVars>>


\* The task which spawn has started (lines 113-120) is dropped by the runtime at
\* one of its awaits: the sleep, the inventory read or the probes of
\* resolve_host_meta (lines 115, 129, 168).  Every insert and empty of crawl is
\* followed by its refresh without an await in between (lines 169-183, 220-223),
\* so no write is queued then; the results of the futures that have completed are
\* locals of the dropped future.  With the task its WriteHandle goes: the map
\* stays as it is published or, when the handle's drop takes it from the readers,
\* their lookups find no key.  targets and resolved keep what the cycle had when
\* it was dropped.
Abort ==
    /\ pc \in {"sleep", "probing"}
    /\ pc' = "aborted"
    /\ published' \in {published, EmptyMap}
    /\ UNCHANGED <<clock, inventory, since_timestamp, apps, targets, resolved, now,
                   duration_prevant_startup, evicted, refreshes, outcome>>
    /\ UNCHANGED <<readerVars, dockerVars>>

\* --------------------------------- HostMetaCache::update_meta_data
\* The listings a call may be given: per app at most two services, no id twice.
ListedIds == {<<>>} \cup {<<id>> : id \in ServiceIds}
             \cup {<<a, b>> : <<a, b>> \in {x \in ServiceIds \X ServiceIds : x[1] # x[2]}}
Listings == [AppNames -> ListedIds]
BaseUrls == {"http://a.example", "http://b.example"}

KeysOf(listing) ==
    {key \in Keys :
        \E i \in DOMAIN listing[key.app_name] : listing[key.app_name][i] = key.service_id}

\* Lines 80-82: the call begins with an empty result and a read handle.
Decorate(listings, base_urls) ==
    /\ dec_pc \in {"idle", "returned"}
    /\ dec_pc' = "running"
    /\ dec_services' \in listings
    /\ request_info' \in base_urls
    /\ assigned_apps' = NoServices
    /\ present_at_start' = {key \in KeysOf(dec_services') : contains_key(published, key)}
    /\ UNCHANGED <<clock, inventory, since_timestamp, crawlerVars, dockerVars>>

DecorateCall == Decorate(Listings, BaseUrls)

\* One iteration of the inner loop, lines 85-102: iter_all visits the apps in any
\* order, each app's services in the order of its Vec; every iteration does its
\* own reader.get_one on the map as it is published at that moment.
DecorateService ==
    /\ dec_pc = "running"
    /\ \E app_name \in AppNames :
        LET done == Len(assigned_apps[app_name])
        IN  /\ done < Len(dec_services[app_name])
            /\ \A other \in AppNames \ {app_name} :
                   Len(assigned_apps[other]) \in {0, Len(dec_services[other])}
            /\ assigned_apps' =
                   [assigned_apps EXCEPT ![app_name] =
                       Append(@, decorated(published, app_name,
                                           dec_services[app_name][done + 1], request_info))]
    /\ UNCHANGED <<dec_pc, dec_services, request_info, present_at_start>>
    /\ UNCHANGED <<clock, inventory, since_timestamp, crawlerVars, dockerVars>>

\* Line 105: every service of the argument has been built.
DecorateReturn ==
    /\ dec_pc = "running"
    /\ \A app_name \in AppNames : Len(assigned_apps[app_name]) = Len(dec_services[app_name])
    /\ dec_pc' = "returned"
    /\ UNCHANGED <<dec_services, request_info, assigned_apps, present_at_start>>
    /\ UNCHANGED <<clock, inventory, since_timestamp, crawlerVars, dockerVars>>

Next ==
    \/ Tick
    \/ StartService
    \/ RestartService
    \/ PauseService
    \/ UnpauseService
    \/ RemoveService
    \/ CrawlError
    \/ CrawlSnapshot
    \/ ForwarderError
    \/ ResponseSome
    \/ ResponseNone
    \/ TransportError
    \/ CrawlInsert

Spec == Init /\ [][Next]_vars

\* The crawler and its environment at a fixed time, and calls of update_meta_data
\* for a listing of the app's two services.
DemoListing == [app_name \in AppNames |->
                   IF app_name = "demo" THEN <<1, 2>> ELSE <<>>]

DecorateDemo == Decorate({DemoListing}, {"http://a.example"})

NextReader ==
    \/ StartService
    \/ RemoveService
    \/ CrawlError
    \/ CrawlSnapshot
    \/ ForwarderError
    \/ ResponseSome
    \/ ResponseNone
    \/ TransportError
    \/ CrawlInsert
    \/ DecorateDemo
    \/ DecorateService
    \/ DecorateReturn

SpecReader == Init /\ [][NextReader]_vars

\* The crawler and its environment at a fixed time, until the runtime drops the
\* crawler's task.
NextAbort ==
    \/ StartService
    \/ RemoveService
    \/ PauseService
    \/ CrawlError
    \/ CrawlSnapshot
    \/ ForwarderError
    \/ ResponseSome
    \/ ResponseNone
    \/ TransportError
    \/ CrawlInsert
    \/ Abort

SpecAbort == Init /\ [][NextAbort]_vars

\* Calls of update_meta_data over a cache that does not change: the cache holds
\* any set of keys, each with the one value the crawler stores for it.
CachedValues == {<<>>, <<Value(FiveMinutes, Meta("valid"))>>}

InitDecorate ==
    /\ inventory = {}
    /\ published \in [Keys -> CachedValues]
    /\ InitCrawler
    /\ InitReader
    /\ InitDocker

NextDecorate ==
    \/ DecorateCall
    \/ DecorateService
    \/ DecorateReturn

SpecDecorate == InitDecorate /\ [][NextDecorate]_vars

\* ------------------------------------------- the container runtime
NotDocker == <<clock, inventory, since_timestamp, crawlerVars, readerVars, listVars>>
stopVars == <<stop_pc, stop_app, stop_before, stop_result, stop_outcome, container_ids>>

\* Somebody creates and starts a container with some labels.
DockerRun ==
    \E labels \in LabelSets :
        /\ next_id <= MaxIds
        /\ containers' = containers \cup {Container(next_id, labels, TRUE)}
        /\ next_id' = next_id + 1
        /\ UNCHANGED <<networks, stopVars, NotDocker, stop_prev, startVars>>

\* The process of a container ends; the container stays in the runtime.
ContainerExits ==
    \E c \in containers :
        /\ c.running
        /\ containers' = (containers \ {c}) \cup {[c EXCEPT !.running = FALSE]}
        /\ UNCHANGED <<networks, next_id, stopVars, NotDocker, stop_prev, startVars>>

\* Somebody creates the network of an app.
NetworkCreate ==
    \E app_name \in AppNames :
        /\ next_id <= MaxIds
        /\ networks' = networks \cup {[id |-> next_id, name |-> NetworkName(app_name)]}
        /\ next_id' = next_id + 1
        /\ UNCHANGED <<containers, stopVars, NotDocker, stop_prev, startVars>>

\* ------------------------------- DockerInfrastructure::stop_services
StopServices ==
    \E app_name \in DeployedApps :
        /\ stop_pc \in {"idle", "returned"}
        /\ stop_pc' = "get_services"
        /\ stop_app' = app_name
        /\ stop_before' = {c.id : c \in {x \in containers :
                              /\ APP_NAME_LABEL \in DOMAIN x.labels
                              /\ x.labels[APP_NAME_LABEL] = app_name}}
        /\ stop_result' = {}
        /\ stop_outcome' = "none"
        /\ container_ids' = {}
        /\ stop_prev' =
               IF /\ stop_app = app_name /\ stop_outcome = "ok"
                  /\ stop_before' \subseteq stop_before
               THEN IF stop_result = {} THEN "early" ELSE "stopped"
               ELSE "none"
        /\ UNCHANGED <<containers, networks, next_id, NotDocker, startVars>>

\* (mutant) lines 372-375 without the early return
StopGetServices_without_return ==
    /\ stop_pc = "get_services"
    /\ stop_result' = get_vec(get_services(containers), stop_app)
    /\ stop_pc' = "list"
    /\ UNCHANGED <<stop_outcome, containers, networks, next_id, stop_app, stop_before,
                   container_ids, NotDocker, stop_prev, startVars>>

\* Lines 372-375: the services of the app as get_services reconstructs them; the
\* call returns Ok(vec![]) when there is none.
StopGetServices ==
    /\ stop_pc = "get_services"
    /\ LET services == get_vec(get_services(containers), stop_app)
       IN  /\ stop_result' = services
           /\ IF services = {}
              THEN stop_pc' = "returned" /\ stop_outcome' = "ok"
              ELSE stop_pc' = "list" /\ stop_outcome' = stop_outcome
    /\ UNCHANGED <<containers, networks, next_id, stop_app, stop_before,
                   container_ids, NotDocker, stop_prev, startVars>>

\* Lines 380-388: the ids of the running containers that carry the app's label;
\* one future per id, which stops the container and then deletes it.
StopList ==
    /\ stop_pc = "list"
    /\ container_ids' = {[id |-> c.id, step |-> "stop"] :
                            c \in list_label(containers, APP_NAME_LABEL, stop_app)}
    /\ stop_pc' = "join_all"
    /\ UNCHANGED <<containers, networks, next_id, stop_app, stop_before, stop_result,
                   stop_outcome, NotDocker, stop_prev, startVars>>

\* container.stop(None) of one future
StopContainer ==
    \E f \in container_ids, c \in containers :
        /\ stop_pc = "join_all"
        /\ f.step = "stop"
        /\ c.id = f.id
        /\ containers' = (containers \ {c}) \cup {[c EXCEPT !.running = FALSE]}
        /\ container_ids' = (container_ids \ {f}) \cup {[f EXCEPT !.step = "delete"]}
        /\ UNCHANGED <<networks, next_id, stop_pc, stop_app, stop_before, stop_result,
                       stop_outcome, NotDocker, stop_prev, startVars>>

\* container.delete() of one future
DeleteContainer ==
    \E f \in container_ids, c \in containers :
        /\ stop_pc = "join_all"
        /\ f.step = "delete"
        /\ c.id = f.id
        /\ containers' = containers \ {c}
        /\ container_ids' = container_ids \ {f}
        /\ UNCHANGED <<networks, next_id, stop_pc, stop_app, stop_before, stop_result,
                       stop_outcome, NotDocker, stop_prev, startVars>>

\* A request to the runtime fails (`?` at lines 372, 388 and 405): the call
\* returns the error, and the futures that have not completed are dropped.
StopFails ==
    /\ \/ stop_pc \in {"get_services", "list"}
       \/ stop_pc = "join_all" /\ container_ids # {}
    /\ stop_pc' = "returned"
    /\ stop_outcome' = "err"
    /\ stop_result' = {}
    /\ container_ids' = {}
    /\ UNCHANGED <<containers, networks, next_id, stop_app, stop_before, NotDocker, stop_prev, startVars>>

\* delete_network, lines 109-123: the networks named after the app
networks_of(nets, app_name) == {n \in nets : n.name = NetworkName(app_name)}

\* Lines 405-409: every future has completed; delete_network deletes the app's
\* networks and the call returns the services.
StopDeleteNetwork ==
    /\ stop_pc = "join_all"
    /\ container_ids = {}
    /\ networks' = networks \ networks_of(networks, stop_app)
    /\ stop_pc' = "returned"
    /\ stop_outcome' = "ok"
    /\ UNCHANGED <<containers, next_id, stop_app, stop_before, stop_result,
                   container_ids, NotDocker, stop_prev, startVars>>

\* delete_network fails at the listing or at one of the deletions, after it has
\* deleted some of the networks.
StopDeleteNetworkFails ==
    \E deleted \in SUBSET networks_of(networks, stop_app) :
        /\ stop_pc = "join_all"
        /\ container_ids = {}
        /\ deleted # networks_of(networks, stop_app) \/ deleted = {}
        /\ networks' = networks \ deleted
        /\ stop_pc' = "returned"
        /\ stop_outcome' = "err"
        /\ stop_result' = {}
        /\ UNCHANGED <<containers, next_id, stop_app, stop_before, container_ids,
                       NotDocker, stop_prev, startVars>>

NextDocker ==
    \/ DockerRun
    \/ ContainerExits
    \/ NetworkCreate
    \/ StopServices
    \/ StopGetServices
    \/ StopList
    \/ StopContainer
    \/ DeleteContainer
    \/ StopFails
    \/ StopDeleteNetwork
    \/ StopDeleteNetworkFails

\* An empty runtime; the crawler has no service to look at.
InitRuntime ==
    /\ inventory = {}
    /\ published = EmptyMap
    /\ InitCrawler
    /\ InitReader
    /\ InitDocker

SpecDocker == InitRuntime /\ [][NextDocker]_vars

\* ------------------------------ DockerInfrastructure::start_services
\* A ServiceConfig: get_service_name(), refers_to_image_id(), get_container_type()
ServiceConfig(service_name, image_id) ==
    [service_name |-> service_name, refers_to_image_id |-> image_id,
     container_type |-> "instance"]

\* The config lists of the calls: service names differ within a list.
ConfigLists ==
    { <<>>,
      <<ServiceConfig("api", FALSE)>>,
      <<ServiceConfig("api", FALSE), ServiceConfig("db", TRUE)>> }

NotStart == <<NotDocker, stopVars, stop_prev>>

\* (mutant) a thread that begins without pulling the image
Worker_without_pull(service_config) ==
    [pc |-> "lookup", pulled |-> FALSE, old |-> 0, id |-> 0, failed_at |-> "none",
     cleaned |-> FALSE]

\* A thread of the scope at the beginning of start_container, lines 131-139: the
\* image is pulled unless the config refers to an image id.
Worker(service_config) ==
    [pc |-> IF service_config.refers_to_image_id THEN "lookup" ELSE "pull",
     pulled |-> FALSE,   \* pull_image has returned
     old |-> 0,          \* container_info.id of the container to replace
     id |-> 0,           \* container_info.id of the new container
     failed_at |-> "none",  \* the place of the request that failed
     cleaned |-> FALSE]  \* the deletion of the replaced container's image has
                         \* been requested

\* A config list in which a service name occurs twice.
RepeatedConfigLists ==
    { <<ServiceConfig("api", FALSE), ServiceConfig("api", FALSE)>>,
      <<ServiceConfig("api", FALSE), ServiceConfig("api", TRUE)>> }

\* Line 333-342: a call of start_services with one of the config lists
StartServicesWith(c, config_lists) ==
    \E app_name \in DeployedApps, configs \in config_lists :
        /\ start_pc[c] \in {"idle", "returned"}
        /\ start_pc' = [start_pc EXCEPT ![c] = "network"]
        /\ start_app' = [start_app EXCEPT ![c] = app_name]
        /\ start_configs' = [start_configs EXCEPT ![c] = configs]
        /\ network_id' = [network_id EXCEPT ![c] = 0]
        /\ workers' = [workers EXCEPT ![c] = <<>>]
        /\ channel' = [channel EXCEPT ![c] = <<>>]
        /\ start_outcome' = [start_outcome EXCEPT ![c] = "none"]
        /\ UNCHANGED <<containers, networks, next_id, NotStart>>

StartServices(c) == StartServicesWith(c, ConfigLists)

\* Lines 345-361: the scope spawns one thread per config.
spawned(configs) == [i \in DOMAIN configs |-> Worker(configs[i])]

\* create_or_get_network_id, lines 83-91: the networks are listed; the id of one
\* with the app's name is returned, and the threads are spawned.
GetNetwork(c) ==
    /\ start_pc[c] = "network"
    /\ \/ \E n \in networks_of(networks, start_app[c]) :
            /\ network_id' = [network_id EXCEPT ![c] = n.id]
            /\ start_pc' = [start_pc EXCEPT ![c] = "scope"]
            /\ workers' = [workers EXCEPT ![c] = spawned(start_configs[c])]
       \/ /\ networks_of(networks, start_app[c]) = {}
          /\ start_pc' = [start_pc EXCEPT ![c] = "create_network"]
          /\ UNCHANGED <<network_id, workers>>
    /\ UNCHANGED <<start_app, start_configs, channel, start_outcome>>
    /\ UNCHANGED <<containers, networks, next_id, NotStart>>

\* create_or_get_network_id, lines 93-106: no network of that name was listed, so
\* one is created; the runtime does not look at the names of the others.
CreateNetwork(c) ==
    /\ start_pc[c] = "create_network"
    /\ next_id <= MaxIds
    /\ networks' = networks \cup {[id |-> next_id, name |-> NetworkName(start_app[c])]}
    /\ next_id' = next_id + 1
    /\ network_id' = [network_id EXCEPT ![c] = next_id]
    /\ start_pc' = [start_pc EXCEPT ![c] = "scope"]
    /\ workers' = [workers EXCEPT ![c] = spawned(start_configs[c])]
    /\ UNCHANGED <<start_app, start_configs, channel, start_outcome>>
    /\ UNCHANGED <<containers, NotStart>>

\* A request of create_or_get_network_id fails (`?` at line 339).
NetworkFails(c) ==
    /\ start_pc[c] \in {"network", "create_network"}
    /\ start_pc' = [start_pc EXCEPT ![c] = "returned"]
    /\ start_outcome' = [start_outcome EXCEPT ![c] = "err"]
    /\ UNCHANGED <<start_app, start_configs, network_id, workers, channel>>
    /\ UNCHANGED <<containers, networks, next_id, NotStart>>

\* ------------------------------ DockerInfrastructure::start_container
\* A thread of the scope moves on; the call and its other threads stay.
WorkerStep(c, i, worker) ==
    /\ start_pc[c] = "scope"
    /\ i \in DOMAIN workers[c]
    /\ workers' = [workers EXCEPT ![c][i] = worker]
    /\ UNCHANGED <<start_pc, start_app, start_configs, network_id, start_outcome>>
    /\ UNCHANGED NotStart

WorkerAt(c, i, place) ==
    start_pc[c] = "scope" /\ i \in DOMAIN workers[c] /\ workers[c][i].pc = place

\* Lines 137-139: pull_image
WorkerPull(c, i) ==
    /\ WorkerAt(c, i, "pull")
    /\ WorkerStep(c, i, [workers[c][i] EXCEPT !.pc = "lookup", !.pulled = TRUE])
    /\ UNCHANGED <<containers, networks, next_id, channel>>

\* get_app_container, lines 260-284: the first listed (running) container with
\* the labels of the app and of the service
get_app_container(cs, app_name, service_name) ==
    {x \in list_label(cs, APP_NAME_LABEL, app_name) :
        /\ SERVICE_NAME_LABEL \in DOMAIN x.labels
        /\ x.labels[SERVICE_NAME_LABEL] = service_name}

\* (mutant) the lookup that never finds a container to replace
WorkerLookup_none(c, i) ==
    /\ WorkerAt(c, i, "lookup")
    /\ WorkerStep(c, i, [workers[c][i] EXCEPT !.pc = "create"])
    /\ UNCHANGED <<containers, networks, next_id, channel>>

\* Lines 141-144: is there a container to replace?
WorkerLookup(c, i) ==
    /\ WorkerAt(c, i, "lookup")
    /\ LET found == get_app_container(containers, start_app[c],
                                      start_configs[c][i].service_name)
       IN  \/ /\ found = {}
              /\ WorkerStep(c, i, [workers[c][i] EXCEPT !.pc = "create"])
           \/ \E container_info \in found :
                  WorkerStep(c, i, [workers[c][i] EXCEPT !.pc = "stop",
                                                          !.old = container_info.id])
    /\ UNCHANGED <<containers, networks, next_id, channel>>

\* Lines 145-152: container.inspect() and container.stop(10 s)
WorkerStop(c, i) ==
    /\ WorkerAt(c, i, "stop")
    /\ \E x \in containers :
        /\ x.id = workers[c][i].old
        /\ containers' = (containers \ {x}) \cup {[x EXCEPT !.running = FALSE]}
    /\ WorkerStep(c, i, [workers[c][i] EXCEPT !.pc = "delete"])
    /\ UNCHANGED <<networks, next_id, channel>>

\* Lines 153-155: container.delete()
WorkerDelete(c, i) ==
    /\ WorkerAt(c, i, "delete")
    /\ \E x \in containers :
        /\ x.id = workers[c][i].old
        /\ containers' = containers \ {x}
    /\ WorkerStep(c, i, [workers[c][i] EXCEPT !.pc = "create"])
    /\ UNCHANGED <<networks, next_id, channel>>

\* Lines 158-196: containers.create with the three labels
WorkerCreate(c, i) ==
    /\ WorkerAt(c, i, "create")
    /\ next_id <= MaxIds
    /\ containers' = containers \cup
           {Container(next_id,
                      Labels(start_app[c], start_configs[c][i].service_name,
                             start_configs[c][i].container_type),
                      FALSE)}
    /\ next_id' = next_id + 1
    /\ WorkerStep(c, i, [workers[c][i] EXCEPT !.pc = "start", !.id = next_id])
    /\ UNCHANGED <<networks, channel>>

\* Lines 198-199: container.start()
WorkerStart(c, i) ==
    /\ WorkerAt(c, i, "start")
    /\ \E x \in containers :
        /\ x.id = workers[c][i].id
        /\ containers' = (containers \ {x}) \cup {[x EXCEPT !.running = TRUE]}
    /\ WorkerStep(c, i, [workers[c][i] EXCEPT !.pc = "connect"])
    /\ UNCHANGED <<networks, next_id, channel>>

\* Lines 201-212: the container is connected to the network of the call
WorkerConnect(c, i) ==
    /\ WorkerAt(c, i, "connect")
    /\ \E n \in networks : n.id = network_id[c]
    /\ \E x \in containers : x.id = workers[c][i].id
    /\ WorkerStep(c, i, [workers[c][i] EXCEPT !.pc = "reread"])
    /\ UNCHANGED <<containers, networks, next_id, channel>>

\* Lines 214-230 and 356: the container is listed again by its id, the image of
\* the replaced container (image_to_delete, set at line 155 once the container is
\* deleted) is deleted if the runtime allows it, and the Service is sent to the
\* channel; the thread panics at unwrap() when the listing does not show the
\* container.
WorkerSend(c, i) ==
    /\ WorkerAt(c, i, "reread")
    /\ LET found == {x \in containers : x.running /\ x.id = workers[c][i].id}
       IN  IF found = {}
           THEN /\ WorkerStep(c, i, [workers[c][i] EXCEPT !.pc = "panicked"])
                /\ UNCHANGED channel
           ELSE /\ WorkerStep(c, i, [workers[c][i] EXCEPT
                                         !.pc = "sent",
                                         !.cleaned = (workers[c][i].old # 0)])
                /\ channel' = [channel EXCEPT ![c] =
                      Append(@, [ok |-> TRUE,
                                 service |-> try_from(CHOOSE x \in found : TRUE).service])]
    /\ UNCHANGED <<containers, networks, next_id>>

\* (mutant) a failed request of a thread that removes the containers of the call
WorkerFails_rollback(c, i) ==
    /\ start_pc[c] = "scope" /\ i \in DOMAIN workers[c]
    /\ workers[c][i].pc \in {"pull", "lookup", "stop", "delete", "create", "start",
                             "connect", "reread"}
    /\ WorkerStep(c, i, [workers[c][i] EXCEPT !.pc = "sent", !.failed_at = workers[c][i].pc])
    /\ channel' = [channel EXCEPT ![c] = Append(@, [ok |-> FALSE])]
    /\ containers' = {x \in containers :
                         \A j \in DOMAIN workers[c] : x.id # workers[c][j].id}
    /\ UNCHANGED <<networks, next_id>>

\* (mutant) a failed pull after which the container to replace is stopped
WorkerFails_stops_existing(c, i) ==
    /\ start_pc[c] = "scope" /\ i \in DOMAIN workers[c]
    /\ workers[c][i].pc \in {"pull", "lookup", "stop", "delete", "create", "start",
                             "connect", "reread"}
    /\ WorkerStep(c, i, [workers[c][i] EXCEPT !.pc = "sent", !.failed_at = workers[c][i].pc])
    /\ channel' = [channel EXCEPT ![c] = Append(@, [ok |-> FALSE])]
    /\ containers' =
           IF workers[c][i].pc # "pull" THEN containers
           ELSE LET found == get_app_container(containers, start_app[c],
                                               start_configs[c][i].service_name)
                IN  (containers \ found) \cup {[x EXCEPT !.running = FALSE] : x \in found}
    /\ UNCHANGED <<networks, next_id>>

\* A request of start_container fails (`?`): the thread sends the error.
WorkerFails(c, i) ==
    /\ start_pc[c] = "scope" /\ i \in DOMAIN workers[c]
    /\ workers[c][i].pc \in {"pull", "lookup", "stop", "delete", "create", "start",
                             "connect", "reread"}
    /\ WorkerStep(c, i, [workers[c][i] EXCEPT !.pc = "sent", !.failed_at = workers[c][i].pc])
    /\ channel' = [channel EXCEPT ![c] = Append(@, [ok |-> FALSE])]
    /\ UNCHANGED <<containers, networks, next_id>>

\* Lines 363-367: the scope has joined its threads; the results are received in
\* the order of arrival, and the first error ends the call.  With a thread that
\* has panicked a result is missing, and recv() of the last one never returns.
StartReturn(c) ==
    /\ start_pc[c] = "scope"
    /\ \A i \in DOMAIN workers[c] : workers[c][i].pc \in {"sent", "panicked"}
    /\ LET err == \E k \in DOMAIN channel[c] : ~channel[c][k].ok
           missing == Len(channel[c]) < Len(start_configs[c])
       IN  IF ~err /\ missing
           THEN /\ start_pc' = [start_pc EXCEPT ![c] = "hung"]
                /\ UNCHANGED start_outcome
           ELSE /\ start_pc' = [start_pc EXCEPT ![c] = "returned"]
                /\ start_outcome' = [start_outcome EXCEPT ![c] =
                                        IF err THEN "err" ELSE "ok"]
    /\ UNCHANGED <<start_app, start_configs, network_id, workers, channel>>
    /\ UNCHANGED <<containers, networks, next_id, NotStart>>

\* The steps of the call of caller c and of its threads
CallSteps(c) ==
    \/ GetNetwork(c)
    \/ CreateNetwork(c)
    \/ NetworkFails(c)
    \/ StartReturn(c)
    \/ \E i \in {1, 2} :
        \/ WorkerPull(c, i)
        \/ WorkerLookup(c, i)
        \/ WorkerStop(c, i)
        \/ WorkerDelete(c, i)
        \/ WorkerCreate(c, i)
        \/ WorkerStart(c, i)
        \/ WorkerConnect(c, i)
        \/ WorkerSend(c, i)
        \/ WorkerFails(c, i)

StartCall(c) == StartServices(c) \/ CallSteps(c)

\* One caller: the calls of start_services follow one another.
NextStart == StartCall(1)

SpecStart == InitRuntime /\ [][NextStart]_vars

\* The callers call start_services at the same time.
NextConcurrent == \E c \in Callers : StartCall(c)

SpecConcurrent == InitRuntime /\ [][NextConcurrent]_vars

\* One caller whose config lists name a service twice: two threads of one scope
\* work on the same (app, service-name).
StartRepeated == StartServicesWith(1, RepeatedConfigLists)

NextRepeated == StartRepeated \/ CallSteps(1)

SpecRepeated == InitRuntime /\ [][NextRepeated]_vars

\* ------------------- get_services and try_from over any set of containers
\* The labels a container of the runtime may carry or lack.
AnyLabels ==
    {Labels(app_name, service_name, container_type) :
        app_name \in {"demo", "other", "none"},
        service_name \in {"api", "none"},
        container_type \in {"instance", "app-companion", "bogus", "none"}}

\* A runtime with up to two containers, running or not, with any labels.
InitListing ==
    /\ inventory = {}
    /\ published = EmptyMap
    /\ InitCrawler
    /\ InitReader
    /\ networks = {}
    /\ stop_pc = "idle"
    /\ stop_app = "none"
    /\ stop_before = {}
    /\ stop_result = {}
    /\ stop_outcome = "none"
    /\ container_ids = {}
    /\ stop_prev = "none"
    /\ InitStart
    /\ InitList
    /\ \E n \in 0..2 : \E given \in [1..n -> AnyLabels \X BOOLEAN] :
           /\ containers = {Container(id, given[id][1], given[id][2]) : id \in 1..n}
           /\ next_id = n + 1

NotList == <<clock, inventory, since_timestamp, crawlerVars, readerVars, containers,
             networks, next_id, stopVars, stop_prev, startVars>>

\* get_services, lines 306-330: the listing succeeds
GetServices ==
    /\ returned_apps' = [call |-> "ok", apps |-> get_services(containers)]
    /\ UNCHANGED <<converted, NotList>>

\* get_services, lines 329-330: Runtime::new() or the listing request fails
GetServicesFails ==
    /\ returned_apps' = [call |-> "err"]
    /\ UNCHANGED <<converted, NotList>>

\* Service::try_from(&c) for a container of the runtime
TryFrom ==
    \E c \in containers :
        /\ converted' = [done |-> TRUE, container |-> c, result |-> try_from(c)]
        /\ UNCHANGED <<returned_apps, NotList>>

NextListing ==
    \/ GetServices
    \/ GetServicesFails
    \/ TryFrom

SpecListing == InitListing /\ [][NextListing]_vars

\* ======================================================== the claims
ValuesOf(map, key) == {map[key][i] : i \in 1..Len(map[key])}
Infos(infos) == {infos[i] : i \in 1..Len(infos)}

\* The service of a snapshot that an entry (key, value) is about, if any.
ServiceOf(snapshot, key) ==
    {s \in snapshot : s.app_name = key.app_name /\ s.id = key.service_id}

\* The four reasons of section 4.5.1 to evict the entry (key, value).
MustEvict(snapshot, key, value) ==
    \/ ~\E s \in snapshot : s.app_name = key.app_name
    \/ ServiceOf(snapshot, key) = {}
    \/ \E s \in ServiceOf(snapshot, key) : s.status = "Paused"
    \/ \E s \in ServiceOf(snapshot, key) : s.started_at > value.timestamp

StaleKeys(map, snapshot) ==
    {key \in Keys : \E value \in ValuesOf(map, key) : MustEvict(snapshot, key, value)}

\* The values a cycle inserts for `key`: one per valid result, in order of completion.
RECURSIVE InsertedValues(_, _, _)
InsertedValues(infos, key, timestamp) ==
    IF infos = <<>> THEN <<>>
    ELSE (IF Head(infos).key = key /\ Head(infos).web_host_meta.kind = "valid"
          THEN <<Value(timestamp, Head(infos).web_host_meta)>> ELSE <<>>)
         \o InsertedValues(Tail(infos), key, timestamp)

C2_EntriesOfUnpausedServices ==
    pc = "sleep" =>
        \A key \in Keys : \A value \in ValuesOf(published, key) :
            \E s \in ServiceOf(apps, key) :
                s.status # "Paused" /\ s.started_at <= value.timestamp

\* C2, amended: when a cycle completes, every entry readers see corresponds to a
\* service of the cycle's snapshot with the same (app_name, id) whose started_at
\* is <= the entry's timestamp, and that service is not Paused unless the cycle
\* itself inserted the entry (the targets are not filtered by status).
C2_EntriesOfSnapshotServices ==
    [][((CrawlSnapshot \/ CrawlInsert) /\ pc' = "sleep") =>
        \A key \in Keys : \A value \in ValuesOf(published', key) :
            \E s \in ServiceOf(apps', key) :
                /\ s.started_at <= value.timestamp
                /\ \/ s.status # "Paused"
                   \/ CrawlInsert /\ value \notin ValuesOf(published, key)
      ]_vars

\* C2, witness: a completed cycle has left an entry for a service that its
\* snapshot showed as Paused.
C2_Witness ==
    /\ pc = "sleep"
    /\ outcome = "refreshed"
    /\ \E key \in Keys : \E s \in ServiceOf(apps, key) :
        contains_key(published, key) /\ s.status = "Paused"

\* --------------------------------------------------------------- C3
\* C3: the eviction pass removes the entries of a key if and only if the snapshot
\* has no app of the key's app_name, or that app has no service of the key's
\* service_id, or that service is Paused, or its started_at is strictly greater
\* than the entry's timestamp; every other entry is left as it is.
C3_EvictIffStale ==
    [][CrawlSnapshot =>
        \A key \in Keys :
            /\ (\E value \in ValuesOf(published, key) :
                    MustEvict(inventory, key, value)) => published'[key] = <<>>
            /\ (\A value \in ValuesOf(published, key) :
                    ~MustEvict(inventory, key, value)) => published'[key] = published[key]
      ]_vars

\* C3, witness: an eviction pass has kept an entry whose service has a started_at
\* equal to the entry's timestamp.
C3_Witness ==
    /\ pc = "sleep"
    /\ outcome = "idle"
    /\ \E key \in Keys : \E value \in ValuesOf(published, key) :
        \E s \in ServiceOf(apps, key) :
            s.status = "Running" /\ s.started_at = value.timestamp

C6_ReprobedInNextCycleOnly ==
    [][CrawlSnapshot =>
        \A key \in Keys :
            (\E value \in ValuesOf(published, key) : \E s \in ServiceOf(inventory, key) :
                s.started_at > value.timestamp)
            => (published'[key] = <<>> /\ \A target \in targets' : target.key # key)
      ]_vars

\* C6, amended: such a key is evicted by the eviction pass and its service is a
\* probe target of the same cycle; when the cycle ends, an evicted key holds what
\* the cycle inserted for it: nothing, or the valid result with the cycle's
\* timestamp.
C6_ReprobedInSameCycle ==
    [][/\ CrawlSnapshot =>
            \A key \in Keys :
                (\E value \in ValuesOf(published, key) :
                    \E s \in ServiceOf(inventory, key) : s.started_at > value.timestamp)
                => (published'[key] = <<>> /\ \E target \in targets' : target.key = key)
       /\ CrawlInsert =>
            \A key \in evicted :
                published'[key] = InsertedValues(resolved, key, now)
      ]_vars

\* C6, witness: the probe of a restarted service, whose entry the same cycle has
\* evicted, has returned a valid document.
C6_Witness ==
    /\ pc = "probing"
    /\ \E info \in Infos(resolved) :
        /\ info.key \in evicted
        /\ info.service.status = "Running"
        /\ info.service.started_at > since_timestamp
        /\ info.response = "Ok(Some)"
        /\ is_valid(info.web_host_meta)

\* --------------------------------------------------------------- C9
\* C9: a call of crawl that ends with the error of the inventory read evicts
\* nothing, probes nothing and inserts nothing, readers see the same cache, and
\* the crawler is back at the sleep of its loop.
C9_FailedReadSkipsCycle ==
    [][(outcome' = "error" /\ outcome # "error") =>
        /\ published' = published
        /\ targets' = targets
        /\ resolved' = resolved
        /\ pc = "sleep"
        /\ pc' = "sleep"
      ]_vars

\* C9, witness: after a failed inventory read the crawler has run a later cycle
\* up to its probes.
C9_Witness ==
    /\ outcome = "error"
    /\ pc = "probing"
    /\ resolved # <<>>

\* The service which the call has built for the i-th service of app_name
Built(app_name, i) == assigned_apps[app_name][i]
\* The positions of the listing which the call has been given
Listed == {x \in AppNames \X {1, 2} : x[2] <= Len(dec_services[x[1]])}

\* C7 (as stated): an entry which the cache holds when a call of update_meta_data
\* begins is present for every lookup of that call, so the call's result carries
\* the meta of every such entry.
C7_PresentAtStartPresentThroughout ==
    dec_pc = "returned" =>
        \A x \in Listed :
            Key(x[1], dec_services[x[1]][x[2]]) \in present_at_start
                => Built(x[1], x[2]).web_host_meta # NoMeta

\* C7 (amended): every lookup of a call is answered from the map as it is
\* published at the moment of that lookup: the service it builds carries the
\* rebased meta of the cache exactly if the key is published then, whatever the
\* cache held when the call began.
C7_EachLookupSeesCurrentState ==
    [][DecorateService =>
        \A app_name \in AppNames :
            assigned_apps'[app_name] # assigned_apps[app_name] =>
                LET i == Len(assigned_apps'[app_name])
                    built == assigned_apps'[app_name][i]
                    key == Key(app_name, dec_services[app_name][i])
                IN  built.web_host_meta =
                        IF contains_key(published, key)
                        THEN with_base_url(get_one(published, key).web_host_meta,
                                           request_info)
                        ELSE NoMeta]_vars

\* A call has returned a result that mixes two published states: both keys were
\* cached when it began, the first service carries its meta, the second does not.
C7_Witness ==
    /\ dec_pc = "returned"
    /\ present_at_start = {Key("demo", 1), Key("demo", 2)}
    /\ Built("demo", 1).web_host_meta # NoMeta
    /\ Built("demo", 2).web_host_meta = NoMeta

\* C8: a call of update_meta_data returns, per app, one service for every service
\* of its argument, in the same order and with the same id; each has the base URL
\* of the request, and carries the meta of the cache, rebased to that URL, if and
\* only if the cache holds the key (app_name, id).
C8_DecorateResult ==
    dec_pc = "returned" =>
        /\ \A app_name \in AppNames :
               Len(assigned_apps[app_name]) = Len(dec_services[app_name])
        /\ \A x \in Listed :
               LET id == dec_services[x[1]][x[2]]
                   key == Key(x[1], id)
               IN  /\ Built(x[1], x[2]).id = id
                   /\ Built(x[1], x[2]).base_url = request_info
                   /\ contains_key(published, key) <=>
                          Built(x[1], x[2]).web_host_meta # NoMeta
                   /\ contains_key(published, key) =>
                          Built(x[1], x[2]).web_host_meta =
                              [kind |-> get_one(published, key).web_host_meta.kind,
                               base_url |-> request_info]

\* A call for two apps has returned: one service with a cached key, one without.
C8_Witness ==
    /\ dec_pc = "returned"
    /\ request_info = "http://b.example"
    /\ dec_services["demo"] = <<2, 1>>
    /\ dec_services["other"] = <<1>>
    /\ contains_key(published, Key("demo", 1))
    /\ ~contains_key(published, Key("demo", 2))
    /\ contains_key(published, Key("other", 1))
    /\ Built("demo", 2).web_host_meta.base_url = "http://b.example"

\* The ids of the containers that carry the app-name label with value app_name
LabelledWith(app_name) ==
    {c.id : c \in {x \in containers : /\ APP_NAME_LABEL \in DOMAIN x.labels
                                      /\ x.labels[APP_NAME_LABEL] = app_name}}

\* C10 (as stated): when stop_services(A) has returned successfully, none of the
\* containers that carried the app-name label with value A when it was called
\* exists in the runtime, whatever their other labels are.
C10_NoLabelledContainerSurvives ==
    (stop_pc = "returned" /\ stop_outcome = "ok") =>
        LabelledWith(stop_app) \cap stop_before = {}

\* The result which the last completed future has appended
LastResolved == resolved'[Len(resolved')]

\* C16 (as stated): on a transport error the result is empty exactly when, at the
\* time of the error, the service has been up for at least 5 minutes and the
\* crawler for at least 1 minute, and invalid otherwise.
C16_ClassifiedAtOneInstant ==
    [][TransportError =>
        LastResolved.web_host_meta =
            IF /\ clock - LastResolved.service.started_at >= 5
               /\ clock - since_timestamp >= 1
            THEN Meta("empty") ELSE Meta("invalid")]_vars

\* C16 (amended): on a transport error the result is empty exactly when the
\* service has been up for at least 5 minutes at the time of the error and the
\* crawler had been up for at least 1 minute when the cycle began to probe (the
\* time of the cycle's insertions), and invalid otherwise.
C16_ClassifiedByUptimes ==
    [][TransportError =>
        /\ LastResolved.response = "Err"
        /\ LastResolved.web_host_meta =
               IF /\ clock - LastResolved.service.started_at >= 5
                  /\ now - since_timestamp >= 1
               THEN Meta("empty") ELSE Meta("invalid")]_vars

\* A transport error of a service that is 5 minutes old, in a cycle that began
\* before the crawler was 1 minute old, has been classified invalid.
C16_Witness ==
    /\ pc = "probing"
    /\ now - since_timestamp < 1
    /\ \E i \in DOMAIN resolved :
           /\ resolved[i].response = "Err"
           /\ now - resolved[i].service.started_at >= 5
           /\ resolved[i].web_host_meta = Meta("invalid")

\* C17 (as stated): a cycle whose snapshot is empty writes nothing to the cache,
\* and a refresh occurs in it.
C17_EmptySnapshotPublishesNothing ==
    [][(CrawlSnapshot /\ inventory = {}) =>
        (published' = published /\ refreshes' >= 1)]_vars

\* C17 (amended): a cycle whose snapshot is empty inserts nothing and evicts every
\* entry; it ends at the early return of crawl, and its only refresh is the one of
\* the eviction pass, which occurs exactly if the cache held an entry.
C17_EmptySnapshotEvictsAll ==
    [][(CrawlSnapshot /\ inventory = {}) =>
        /\ published' = EmptyMap
        /\ pc' = "sleep" /\ outcome' = "idle" /\ targets' = {}
        /\ refreshes' = IF published = EmptyMap THEN 0 ELSE 1]_vars

\* A cycle with an empty snapshot has evicted the last entries with one refresh.
C17_Witness ==
    /\ pc = "sleep" /\ outcome = "idle"
    /\ apps = {} /\ inventory = {}
    /\ refreshes = 1
    /\ published = EmptyMap

\* C19: the targets of a cycle are exactly the services of the snapshot whose key
\* is not in the cache after the eviction pass; a service with an entry that is
\* not paused and has not been restarted since is no target; a cycle without
\* targets ends at once, with no probe and no insertion.
C19_TargetsAreServicesWithoutEntry ==
    [][CrawlSnapshot =>
        /\ {t.service : t \in targets'} =
               {s \in inventory : ~contains_key(published', Key(s.app_name, s.id))}
        /\ \A t \in targets' : t.key = Key(t.service.app_name, t.service.id)
        /\ \A s \in inventory :
               (/\ contains_key(published, Key(s.app_name, s.id))
                /\ s.status # "Paused"
                /\ \A v \in ValuesOf(published, Key(s.app_name, s.id)) :
                       s.started_at <= v.timestamp)
                   => s \notin {t.service : t \in targets'}
        /\ targets' = {} =>
               /\ pc' = "sleep" /\ resolved' = <<>>
               /\ \A key \in Keys : ValuesOf(published', key) \subseteq
                                        ValuesOf(published, key)]_vars

\* A cycle probes one service of the snapshot and not the other, which has an
\* entry.
C19_Witness ==
    /\ pc = "probing"
    /\ \E s \in apps, t \in targets :
           /\ s.id # t.service.id
           /\ contains_key(published, Key(s.app_name, s.id))
           /\ \A u \in targets : u.service.id # s.id

\* C20: when http_forwarder() fails for a target, the result of that target is
\* empty whatever the uptimes are, no request is made for it, and nothing else
\* of the cycle changes: the other targets stay to be probed, earlier results are
\* kept, and the cycle's insertions put every valid result into the cache.
C20_ForwarderErrorIsLocal ==
    [][(ForwarderError =>
            /\ LastResolved.web_host_meta = Meta("empty")
            /\ LastResolved.response = "no forwarder"
            /\ LastResolved.key \in {t.key : t \in targets}
            /\ targets' = {t \in targets : t.key # LastResolved.key}
            /\ SubSeq(resolved', 1, Len(resolved)) = resolved
            /\ pc' = "probing" /\ published' = published)
       /\ (CrawlInsert =>
            \A i \in DOMAIN resolved :
                is_valid(resolved[i].web_host_meta) =>
                    Value(now, resolved[i].web_host_meta)
                        \in ValuesOf(published', resolved[i].key))]_vars

\* All probes of a cycle have completed: no forwarder for a young service, whose
\* result is empty, and a valid answer of another service.
C20_Witness ==
    /\ pc = "probing" /\ targets = {}
    /\ \E i, j \in DOMAIN resolved :
           /\ resolved[i].response = "no forwarder"
           /\ resolved[i].web_host_meta = Meta("empty")
           /\ now - resolved[i].service.started_at < 5
           /\ resolved[j].response = "Ok(Some)"
           /\ is_valid(resolved[j].web_host_meta)

\* This call is the second of two calls for the same app: the first has returned
\* successfully, and no container with the app's label has appeared since it began.
SecondStop ==
    /\ stop_prev # "none"
    /\ LabelledWith(stop_app) \subseteq stop_before

\* C11: a call of stop_services for an app without containers, and a second call
\* after a successful one, returns the empty list without error as soon as its
\* reading of the services has succeeded, and changes nothing in the runtime.
C11_StopIsIdempotent ==
    [][(StopGetServices /\ (LabelledWith(stop_app) = {} \/ SecondStop)) =>
        /\ stop_pc' = "returned"
        /\ stop_outcome' = "ok"
        /\ stop_result' = {}
        /\ containers' = containers
        /\ networks' = networks]_vars

\* The second of two calls has returned the empty list; the first had stopped a
\* container and deleted the network.
C11_Witness ==
    /\ stop_pc = "returned" /\ stop_outcome = "ok" /\ stop_result = {}
    /\ SecondStop
    /\ stop_prev = "stopped"
    /\ LabelledWith(stop_app) = {}

\* The containers with the labels of app_name and service_name
LabelledAs(app_name, service_name) ==
    {x \in containers :
        /\ APP_NAME_LABEL \in DOMAIN x.labels
        /\ x.labels[APP_NAME_LABEL] = app_name
        /\ SERVICE_NAME_LABEL \in DOMAIN x.labels
        /\ x.labels[SERVICE_NAME_LABEL] = service_name}

\* C12 (as stated): when start_services(A, [c1..cn]) has returned successfully,
\* it has returned n services, and for every ci exactly one container with the
\* labels (A, ci.service_name) exists.
C12_OneContainerPerConfig ==
    \A c \in Callers :
        (start_pc[c] = "returned" /\ start_outcome[c] = "ok") =>
            /\ Len(channel[c]) = Len(start_configs[c])
            /\ \A i \in DOMAIN start_configs[c] :
                   Cardinality(LabelledAs(start_app[c],
                                          start_configs[c][i].service_name)) = 1

\* No call of start_services or stop_services is running.
NoCallRuns ==
    /\ \A c \in Callers : start_pc[c] \in {"idle", "returned"}
    /\ stop_pc \in {"idle", "returned"}

\* C13 (as stated): between the calls, the network of an app exists if and only
\* if a container with the label of the app exists.
C13_NetworkIffContainer ==
    NoCallRuns =>
        \A app_name \in AppNames :
            (networks_of(networks, app_name) # {}) <=> (LabelledWith(app_name) # {})

\* C14 (as stated): at most one network with the name of an app exists.
C14_AtMostOneNetwork ==
    \A app_name \in AppNames : Cardinality(networks_of(networks, app_name)) <= 1

\* The thread has had its container created and started.
HasStarted(worker) ==
    worker.id # 0 /\ worker.failed_at \notin {"start"}

\* C15: a call of start_services in which the start of a service has failed
\* returns an error; when it has, every container which a thread of the call has
\* created is in the runtime, running if the thread has started it, and the
\* network of the call exists.
C15_NoRollback ==
    \A c \in Callers :
        start_pc[c] = "returned" =>
            /\ (\E i \in DOMAIN workers[c] : workers[c][i].failed_at # "none")
                   => start_outcome[c] = "err"
            /\ (start_outcome[c] = "err" /\ workers[c] # <<>>) =>
                   /\ \E n \in networks :
                          n.id = network_id[c] /\ n.name = NetworkName(start_app[c])
                   /\ \A i \in DOMAIN workers[c] :
                          workers[c][i].id # 0 =>
                              \E x \in containers :
                                  /\ x.id = workers[c][i].id
                                  /\ HasStarted(workers[c][i]) => x.running

\* A call of two services has returned an error: the pull of the first has
\* failed, the container of the second runs.
C15_Witness ==
    /\ start_pc[1] = "returned" /\ start_outcome[1] = "err"
    /\ Len(workers[1]) = 2
    /\ workers[1][1].failed_at = "pull"
    /\ workers[1][2].failed_at = "none"
    /\ \E x \in containers : x.id = workers[1][2].id /\ x.running

\* C18 (as stated): when a thread stops the container it replaces, the image of
\* the new container has not been pulled.
C18_ReplacedBeforePull ==
    [][\A c \in Callers, i \in {1, 2} :
           WorkerStop(c, i) => ~workers[c][i].pulled]_vars

\* The order of the places of a thread of start_container
StepOrder ==
    { <<"pull", "lookup">>, <<"lookup", "stop">>, <<"lookup", "create">>,
      <<"stop", "delete">>, <<"delete", "create">>, <<"create", "start">>,
      <<"start", "connect">>, <<"connect", "reread">>, <<"reread", "sent">>,
      <<"reread", "panicked">> }

\* C18 (amended): a thread of start_services goes through pulling (unless the
\* config names an image id), the lookup of a container to replace, creating,
\* created, started, connected, running in that order, or ends at a request that
\* fails; on replacement the image has been pulled before the old container is
\* stopped, the old container is stopped, then deleted, and the new one is
\* created after that.
C18_StepsInOrder ==
    [][\A c \in Callers, i \in {1, 2} :
           (/\ start_pc[c] = "scope" /\ start_pc'[c] = "scope"
            /\ i \in DOMAIN workers[c]
            /\ workers'[c][i] # workers[c][i]) =>
               LET old == workers[c][i]
                   new == workers'[c][i]
                   Has(id, running) ==
                       \E x \in containers' : x.id = id /\ x.running = running
               IN  /\ \/ <<old.pc, new.pc>> \in StepOrder /\ new.failed_at = "none"
                      \/ new.pc = "sent" /\ new.failed_at = old.pc
                   /\ new.pc = "stop" =>
                          (old.pulled \/ start_configs[c][i].refers_to_image_id)
                   /\ new.pc = "delete" => Has(old.old, FALSE)
                   /\ (new.pc = "create" /\ old.pc = "delete") =>
                          \A x \in containers' : x.id # old.old
                   /\ new.pc = "start" => Has(new.id, FALSE) /\ new.id \notin
                                              {x.id : x \in containers}
                   /\ new.pc = "connect" => Has(new.id, TRUE)
                   /\ (new.pc = "sent" /\ new.failed_at = "none") =>
                          Has(new.id, TRUE)]_vars

\* A thread has pulled the image, has stopped and deleted the container it
\* replaces, and is about to create the new one.
C18_Witness ==
    /\ start_pc[1] = "scope"
    /\ \E i \in DOMAIN workers[1] :
           /\ workers[1][i].pc = "create"
           /\ workers[1][i].pulled
           /\ workers[1][i].old # 0
           /\ \A x \in containers : x.id # workers[1][i].old
\* Does the container carry the label, and with which value?
HasLabel(c, label) == label \in DOMAIN c.labels

NewlyVisible ==
    {key \in Keys : ~(ValuesOf(published', key) \subseteq ValuesOf(published, key))}

\* C22: a value becomes visible to readers only at the insertion phase of a cycle,
\* and then no probe of the cycle is outstanding and every probe's result is at
\* hand; a cycle that is dropped, with or without outstanding probes, makes no
\* value visible, and nothing becomes visible after it.
C22_InsertionsAfterAllProbes ==
    [][/\ NewlyVisible # {} =>
            /\ CrawlInsert
            /\ targets = {}
            /\ \A s \in apps :
                   ~contains_key(published, Key(s.app_name, s.id)) =>
                       \E info \in Infos(resolved) : info.service = s
       /\ CrawlInsert => targets = {}
       /\ Abort => NewlyVisible = {}
       /\ pc = "aborted" => (NewlyVisible = {} /\ pc' = "aborted")
      ]_vars

\* A cycle has been dropped while a probe was outstanding; another probe had
\* returned a valid document, which readers do not see.
C22_Witness ==
    /\ pc = "aborted"
    /\ targets # {}
    /\ \E info \in Infos(resolved) :
           /\ is_valid(info.web_host_meta)
           /\ ~contains_key(published, info.key)
           /\ \E s \in inventory : s.id = info.key.service_id
\* C23: the service ids of an inventory are unique, and every cache key holds at
\* most one value at any time: the insertion phase gives a value to keys that
\* hold none, one value each, and the eviction pass leaves a key as it is or
\* removes all its values.
C23_OneValuePerKey ==
    [][/\ \A key \in Keys : Len(published'[key]) <= 1
       /\ Cardinality({s.id : s \in inventory}) = Cardinality(inventory)
       /\ CrawlInsert =>
            \A key \in Keys :
                published'[key] # published[key] =>
                    published[key] = <<>> /\ Len(published'[key]) = 1
       /\ CrawlSnapshot =>
            \A key \in Keys : published'[key] \in {published[key], <<>>}
      ]_vars

\* Two cycles have inserted a value each: two keys hold one value each, with
\* different timestamps.
C23_Witness ==
    /\ pc = "sleep" /\ outcome = "refreshed"
    /\ \E k1, k2 \in Keys :
           /\ Len(published[k1]) = 1 /\ Len(published[k2]) = 1
           /\ published[k1][1].timestamp # published[k2][1].timestamp
\* C24: the timestamp of a cycle is the time at which the cycle, with its
\* snapshot taken, begins to probe: no probe has completed then, and it does not
\* change while the probes run.  Every entry the cycle inserts carries it.  So an
\* entry whose service has restarted during the probes, with a started_at later
\* than the timestamp, is stale when it is inserted, and the eviction pass of the
\* next cycle whose snapshot shows that started_at removes it and makes the
\* service a target again.
C24_OneTimestampPerCycle ==
    [][/\ (CrawlSnapshot /\ pc' = "probing") =>
            /\ now' = clock /\ apps' = inventory
            /\ resolved' = <<>> /\ targets' # {}
       /\ (pc = "probing" /\ pc' = "probing") => now' = now
       /\ CrawlInsert =>
            /\ now <= clock
            /\ \A key \in Keys : \A value \in ValuesOf(published', key) :
                   value \notin ValuesOf(published, key) =>
                       /\ value.timestamp = now
                       /\ \A s \in ServiceOf(inventory, key) :
                              s.started_at > now =>
                                  key \in keys_to_clear(published', inventory)
       /\ CrawlSnapshot =>
            \A key \in Keys : \A value \in ValuesOf(published, key) :
                (\E s \in ServiceOf(inventory, key) : s.started_at > value.timestamp) =>
                    /\ published'[key] = <<>>
                    /\ \E t \in targets' : t.key = key
      ]_vars

\* Every probe of a cycle has completed, the clock has advanced since the cycle
\* took its timestamp, and a service whose probe returned a valid document has
\* restarted in the meantime.
C24_Witness ==
    /\ pc = "probing" /\ targets = {}
    /\ now < clock
    /\ \E info \in Infos(resolved) :
           /\ is_valid(info.web_host_meta)
           /\ info.service.started_at <= now
           /\ \E s \in ServiceOf(inventory, info.key) : s.started_at > now
\* C25 (as stated): at most one container with the labels of a given app and
\* service name exists at any time, and no thread of start_container deletes a
\* container which another thread of a running call has created.
C25_NoDuplicateNoInterference ==
    [][/\ \A service_name \in {"api", "db"} :
            Cardinality({x \in containers' :
                            /\ HasLabel(x, APP_NAME_LABEL) /\ HasLabel(x, SERVICE_NAME_LABEL)
                            /\ x.labels[APP_NAME_LABEL] = "demo"
                            /\ x.labels[SERVICE_NAME_LABEL] = service_name}) <= 1
       /\ \A c \in Callers, i \in {1, 2} :
            WorkerDelete(c, i) =>
                \A d \in Callers :
                    start_pc[d] = "scope" =>
                        \A j \in DOMAIN workers[d] : workers[d][j].id # workers[c][i].old
      ]_vars
\* C26: while a thread of start_services pulls its image, and after the pull has
\* failed, the containers with the labels of its app and service name stay as they
\* are, running or not; the thread has looked up no container to replace, has
\* created none, and has not asked for the deletion of an image; it sends the
\* error, and the call returns an error.  The lookup of the container to replace
\* comes after the pull.
C26_FailedPullTouchesNothing ==
    [][\A c \in Callers, i \in {1, 2} :
           /\ (/\ start_pc[c] = "scope" /\ i \in DOMAIN workers[c]
               /\ \/ workers[c][i].pc = "pull"
                  \/ workers[c][i].failed_at = "pull") =>
                  /\ LabelledAs(start_app[c], start_configs[c][i].service_name) =
                         {x \in containers' :
                             /\ HasLabel(x, APP_NAME_LABEL) /\ HasLabel(x, SERVICE_NAME_LABEL)
                             /\ x.labels[APP_NAME_LABEL] = start_app[c]
                             /\ x.labels[SERVICE_NAME_LABEL] =
                                    start_configs[c][i].service_name}
                  /\ workers'[c][i].old = 0
                  /\ workers'[c][i].id = 0
                  /\ ~workers'[c][i].cleaned
                  /\ workers'[c][i].pc \in {"pull", "lookup", "sent"}
                  /\ workers'[c][i].pc = "sent" =>
                         /\ workers'[c][i].failed_at = "pull"
                         /\ \E k \in DOMAIN channel'[c] : ~channel'[c][k].ok
                  /\ start_pc'[c] = "returned" => start_outcome'[c] = "err"
           /\ WorkerLookup(c, i) =>
                  (workers[c][i].pulled \/ start_configs[c][i].refers_to_image_id)
      ]_vars

\* A call has returned an error because the pull of api failed; the container of
\* (demo, api) which an earlier call had started runs.
C26_Witness ==
    /\ start_pc[1] = "returned" /\ start_outcome[1] = "err"
    /\ workers[1] # <<>>
    /\ workers[1][1].failed_at = "pull"
    /\ \E x \in LabelledAs("demo", "api") : x.running
\* C27 (as stated): stop_services deletes a network of the app only when every
\* container that carried the app-name label of the app when it was called has
\* been stopped and deleted; when the stop or the deletion of a container fails,
\* the call returns an error and the networks are left as they are.
C27_NetworkDeletedLast ==
    [][/\ (/\ stop_pc = "join_all"
           /\ ~(networks_of(networks, stop_app) \subseteq networks')) =>
              /\ container_ids = {}
              /\ LabelledWith(stop_app) \cap stop_before = {}
       /\ StopFails =>
              /\ networks' = networks
              /\ stop_pc' = "returned" /\ stop_outcome' = "err"
      ]_vars
====
